---- MODULE Spec2Model ----
(***************************************************************************)
(* View-state binding hooks (useTextValueBind, useTextStateBind,           *)
(* useTextContextBind, useRadioBind, useCheckboxBind, useSelectBind) and   *)
(* the ModalConfirm dialog of src/components/com/ModalConfirm.js, as state *)
(* machines.  Each hook has its own specification (SpecCheckbox, ...); the *)
(* variables of the other hooks stay at their idle values.                 *)
(***************************************************************************)
EXTENDS Integers, Sequences, FiniteSets, TLC

\* ------------------------------------------------------------------ bounds
\* Longest caller-supplied option definition list (initData.values).
MaxOpts == 2
\* Longest caller-supplied initial checked list (initData.initCheckedList).
MaxInit == 2
\* Most state-setter calls (setCheckboxData, setRadioData, ...) in one run.
MaxSets == 4
\* Most host re-renders in one run.
MaxRenders == 2
\* Most writes (onChange, setValue, reset) to a tree-backed binding in one run.
MaxWrites == 3
MaxClicks == 2

\* Option values and text-field values.
Vals == {"a", "b"}
\* JavaScript undefined (an absent argument or property).
Undefined == "undefined"

SeqsUpTo(S, n) == UNION {[1..k -> S] : k \in 0..n}
Range(s) == {s[i] : i \in 1..Len(s)}

VARIABLES
  hook,        \* the hook (or component) the run is about
  \* ---- useCheckboxBind
  cbDefs,      \* initData.values: the caller's option values, in order
  cbCaller,    \* the caller's initCheckedList array: [present, list]
  cbAliased,   \* refData.checkedList is the caller's array object itself
  cbList,      \* checkboxData.refData.checkedList
  cbValues,    \* checkboxData.refData.values: <<[value, checked], ...>>
  cbMounted,   \* the mount effect has run
  cbSets,      \* number of setCheckboxData calls (snapshots handed to the host)
  cbRenders,   \* number of host re-renders after the first render
  cbTrace,     \* the last two operations with the state each started from
  cbGiven      \* initData.initCheckedList as the caller passed it

cbVars == <<cbDefs, cbCaller, cbAliased, cbList, cbValues, cbMounted, cbSets,
            cbRenders, cbTrace, cbGiven>>

\* ---- useRadioBind
VARIABLES
  rdDefs,      \* initData.values: the caller's option values, in order
  rdInitValue, \* initData.initValue (Undefined when absent)
  rdObjs,      \* every top-level radioData object made so far: its selectedValue
  rdValues,    \* the values array all of them share: <<[value, checked], ...>>
  rdCur,       \* index in rdObjs of the object React holds as state
  rdSeen,      \* index in rdObjs of the radioData the latest render closed over
  rdMounted,   \* the mount effect has run
  rdRenders,   \* number of host re-renders after the first render
  rdTrace      \* the last two operations: [op, val]

rdVars == <<rdDefs, rdInitValue, rdObjs, rdValues, rdCur, rdSeen, rdMounted,
            rdRenders, rdTrace>>

\* ---- useTextValueBind / useSelectBind
VARIABLES
  lvArg,       \* the initialValue argument (Undefined when absent)
  lvValue,     \* the useState value, which attr.value shows
  lvBuilt,     \* attr.value immediately after construction
  lvSets,      \* number of setValue (state setter) calls
  lvRenders,   \* number of host re-renders after the first render
  lvTrace      \* the last two operations: [op, val]

lvVars == <<lvArg, lvValue, lvBuilt, lvSets, lvRenders, lvTrace>>

\* ---- ModalConfirm
VARIABLES
  mdLayerIndex, \* the layerIndex prop
  mdLayers,     \* StoreCore's layerList: the ids of the stacked layers
  mdCbs,        \* per render: the identity of the callbackFunc prop
  mdFlags,      \* per render: that render's local isNotClosed
  mdEffect,     \* the render whose effect (and cleanup closure) is registered
  mdMounted,    \* the dialog is mounted
  mdCalls,      \* every callbackFunc invocation so far: [cb, result, at,
                \* flag, layers], the last three as seen when it was made
  mdClicks,     \* every btnClick so far: [result, before, after], the layer
                \* list before the click and after it
  mdErrors      \* where a call of an undefined callbackFunc threw

mdVars ==
  <<mdLayerIndex, mdLayers, mdCbs, mdFlags, mdEffect, mdMounted, mdCalls,
    mdClicks, mdErrors>>

\* ---- useTextStateBind / useTextContextBind
VARIABLES
  trField,     \* the field argument, split on '.': <<"x">> or <<"o", "y">>
  trHeap,      \* every object made so far; a root or a nested object
  trCur,       \* index in trHeap of the root the host holds (state / data)
  trSeen,      \* index in trHeap of the root the latest render was given
  trInitial,   \* initialValue as computed by the latest render
  trBuilt,     \* the bound field's value when the binding was first constructed
  trSets,      \* number of setState / setData calls
  trRenders,   \* number of host re-renders not caused by a write
  trTrace,     \* the last two operations: [op, val, fresh, binding, root,
               \* made, sets, mounted], the last three as they were before it
  trOld,       \* index of the root closed over by handlers the host kept from
               \* an earlier render; 0 when it kept none
  trLast,      \* per binding on the root: the value last written to its field
  trMounted    \* the host component is mounted

trVars == <<trField, trHeap, trCur, trSeen, trInitial, trBuilt, trSets,
            trRenders, trTrace, trOld, trLast, trMounted>>

\* ---- a call of one of the four hooks that validate their parameters
VARIABLES
  ctArgs,      \* the arguments: [field, state, setState, context, initData, values]
  ctPc,        \* "call" before the hook body runs, then "threw" or "returned"
  ctCells,     \* number of useState cells the call created
  ctReads,     \* number of reads of the backing data the call made
  ctHandlers   \* the call handed its handlers to the caller

ctVars == <<ctArgs, ctPc, ctCells, ctReads, ctHandlers>>

\* ---- getNestedValue / setNestedValue on their own
VARIABLES
  ptRoot,      \* the tree before the write
  ptHeap,      \* the tree now; object 1 is the root
  ptPath,      \* the path, split on '.'
  ptPc,        \* "start", "written" after the write, "read" after the read
  ptValue,     \* the value written
  ptRead       \* the value read back

ptVars == <<ptRoot, ptHeap, ptPath, ptPc, ptValue, ptRead>>

vars == <<hook, cbVars, rdVars, lvVars, mdVars, trVars, ctVars, ptVars>>

Null == "null"

\* JavaScript truthiness of the values the model passes around.
Truthy(x) == x \notin {Undefined, Null, ""}

\* ------------------------------------------------------ useCheckboxBind
\* Array.prototype.indexOf: 0-based index of the first match, -1 if none.
IndexOf(list, v) ==
  IF \E i \in 1..Len(list) : list[i] = v
  THEN (CHOOSE i \in 1..Len(list) :
          list[i] = v /\ \A j \in 1..(i - 1) : list[j] # v) - 1
  ELSE -1

\* Array.prototype.splice(index, 1): removes the element at 0-based index.
Splice1(list, index) ==
  [k \in 1..(Len(list) - 1) |-> IF k <= index THEN list[k] ELSE list[k + 1]]

\* The initial refData.checkedList: the caller's array if truthy, else [].
InitCheckedList(caller) == IF caller.present THEN caller.list ELSE <<>>

\* One option built by the mount effect: checked iff its value is in the list.
MakeOption(value, list) ==
  [value |-> value, checked |-> IndexOf(list, value) > -1]

\* The mount effect's forEach: one option per definition, appended to values.
PopulateOptions(values, defs, list) ==
  values \o [i \in 1..Len(defs) |-> MakeOption(defs[i], list)]

\* Faulty variant of ToggleList: the value of an unchecked option is never
\* removed from the list.
ToggleListNoSplice(list, value, checked) ==
  LET has == IndexOf(list, value) > -1
  IN  IF checked /\ ~has THEN Append(list, value) ELSE list

\* option.attr.onChange, the list part: the flag has already been flipped to
\* `checked`; push when checked and absent, splice when unchecked and present.
ToggleList(list, value, checked) ==
  LET index == IndexOf(list, value)
      has == index > -1
  IN  IF checked /\ ~has THEN Append(list, value)
      ELSE IF ~checked /\ has THEN Splice1(list, index)
      ELSE list

\* checkAll, the flags: every option's checked becomes isChecked.
CheckAllValues(values, isChecked) ==
  [i \in 1..Len(values) |-> [values[i] EXCEPT !.checked = isChecked]]

\* Faulty variant of CheckAllList: the else branch that empties the list is
\* missing.
CheckAllListNoClear(values, isChecked) ==
  [i \in 1..Len(values) |-> values[i].value]

\* checkAll, the list: every option value in option order, or [].
CheckAllList(values, isChecked) ==
  IF isChecked THEN [i \in 1..Len(values) |-> values[i].value] ELSE <<>>

\* Faulty variant of EffectOnRerender: useEffect without a dependency list.
EffectOnEveryRender == TRUE

\* useEffect(..., []) : the effect does not run again on a re-render.
EffectOnRerender == FALSE

Flags(values) == [i \in 1..Len(values) |-> values[i].checked]

CbEntry(op, idx, flag) ==
  [op |-> op, idx |-> idx, flag |-> flag, list |-> cbList,
   flags |-> Flags(cbValues), values |-> cbValues, sets |-> cbSets]

CbLog(e) == IF Len(cbTrace) < 2 THEN Append(cbTrace, e) ELSE <<cbTrace[2], e>>

CbIdle ==
  /\ cbDefs = <<>>
  /\ cbCaller = [present |-> FALSE, list |-> <<>>]
  /\ cbAliased = FALSE
  /\ cbList = <<>>
  /\ cbValues = <<>>
  /\ cbMounted = FALSE
  /\ cbSets = 0
  /\ cbRenders = 0
  /\ cbTrace = <<>>
  /\ cbGiven = <<>>

\* State after the first render: useState's initial object, no options yet.
CbInit ==
  /\ hook = "useCheckboxBind"
  /\ cbDefs \in (SeqsUpTo(Vals, MaxOpts) \ {<<>>})
  /\ cbCaller \in ({[present |-> FALSE, list |-> <<>>]} \cup
                   {[present |-> TRUE, list |-> l] : l \in SeqsUpTo(Vals, MaxInit)})
  /\ cbAliased = cbCaller.present
  /\ cbList = InitCheckedList(cbCaller)
  /\ cbValues = <<>>
  /\ cbMounted = FALSE
  /\ cbSets = 0
  /\ cbRenders = 0
  /\ cbTrace = <<>>
  /\ cbGiven = cbCaller.list

\* The checkedList of a second useCheckboxBind built from the same initData
\* and never operated: its useState initial value is the caller's array too.
OtherCheckedList == InitCheckedList(cbCaller)

\* Every useCheckboxBind step leaves the other hooks alone.
CbFrame ==
  hook = "useCheckboxBind" /\ UNCHANGED <<hook, rdVars, lvVars, mdVars, trVars, ctVars, ptVars>>

\* The mount effect (runs once, after the first commit).
CbMountEffect ==
  /\ CbFrame
  /\ ~cbMounted
  /\ cbValues' = PopulateOptions(cbValues, cbDefs, cbList)
  /\ cbMounted' = TRUE
  /\ cbSets' = cbSets + 1
  /\ UNCHANGED <<cbDefs, cbCaller, cbAliased, cbList, cbRenders, cbTrace, cbGiven>>

\* A host re-render: useState returns the stored object; the effect's
\* dependency list is empty.
CbRender ==
  /\ CbFrame
  /\ cbMounted
  /\ cbRenders < MaxRenders
  /\ cbRenders' = cbRenders + 1
  /\ cbValues' = IF EffectOnRerender
                 THEN PopulateOptions(cbValues, cbDefs, cbList)
                 ELSE cbValues
  /\ UNCHANGED <<cbDefs, cbCaller, cbAliased, cbList, cbMounted, cbSets, cbTrace,
                 cbGiven>>

\* option.attr.onChange of option i.
CbToggle(i) ==
  /\ CbFrame
  /\ cbMounted
  /\ cbSets < MaxSets
  /\ LET checked == ~cbValues[i].checked
         list == ToggleList(cbList, cbValues[i].value, checked)
     IN  /\ cbValues' = [cbValues EXCEPT ![i].checked = checked]
         /\ cbList' = list
         /\ cbCaller' = IF cbAliased THEN [cbCaller EXCEPT !.list = list]
                        ELSE cbCaller
  /\ cbSets' = cbSets + 1
  /\ cbTrace' = CbLog(CbEntry("toggle", i, FALSE))
  /\ UNCHANGED <<cbDefs, cbAliased, cbMounted, cbRenders, cbGiven>>

\* checkAll(isChecked): refData.checkedList is assigned a new array.
CbCheckAll(isChecked) ==
  /\ CbFrame
  /\ cbMounted
  /\ cbSets < MaxSets
  /\ cbValues' = CheckAllValues(cbValues, isChecked)
  /\ cbList' = CheckAllList(cbValues, isChecked)
  /\ cbAliased' = FALSE
  /\ cbSets' = cbSets + 1
  /\ cbTrace' = CbLog(CbEntry("checkAll", 0, isChecked))
  /\ UNCHANGED <<cbDefs, cbCaller, cbMounted, cbRenders, cbGiven>>

CbNext ==
  \/ CbMountEffect
  \/ CbRender
  \/ \E i \in 1..Len(cbValues) : CbToggle(i)
  \/ \E b \in BOOLEAN : CbCheckAll(b)

\* --------------------------------------------------------- useRadioBind
\* The initial selectedValue: initData.initValue if truthy, else ''.
InitSelected(initValue) == IF Truthy(initValue) THEN initValue ELSE ""

\* Faulty variant of MakeRadioOption: the initial selection is not applied.
MakeRadioOptionUnchecked(value, selected) ==
  [value |-> value, checked |-> FALSE]

\* One option built by the mount effect: checked iff its value is selected.
MakeRadioOption(value, selected) ==
  [value |-> value, checked |-> (value = selected)]

\* The mount effect's forEach over initData.values.
PopulateRadio(values, defs, selected) ==
  values \o [i \in 1..Len(defs) |-> MakeRadioOption(defs[i], selected)]

\* Faulty variant of RecomputeChecked: the matching option is checked, the
\* others are left as they were.
RecomputeCheckedPatchOnly(values, val) ==
  [i \in 1..Len(values) |->
     [values[i] EXCEPT !.checked = (values[i].checked \/ values[i].value = val)]]

\* The forEach of setSelectedValue and handleChange: every option's checked
\* is recomputed as option.attr.value === val.
RecomputeChecked(values, val) ==
  [i \in 1..Len(values) |-> [values[i] EXCEPT !.checked = (values[i].value = val)]]

\* useEffect(..., []) of useRadioBind: no re-run on a re-render.
RadioEffectOnRerender == FALSE

RdIdle ==
  /\ rdDefs = <<>>
  /\ rdInitValue = Undefined
  /\ rdObjs = <<>>
  /\ rdValues = <<>>
  /\ rdCur = 0
  /\ rdSeen = 0
  /\ rdMounted = FALSE
  /\ rdRenders = 0
  /\ rdTrace = <<>>

\* State after the first render: one radioData object, no options yet.
RdInit ==
  /\ hook = "useRadioBind"
  /\ rdDefs \in (SeqsUpTo(Vals, MaxOpts) \ {<<>>})
  /\ rdInitValue \in ({Undefined, ""} \cup Vals)
  /\ rdObjs = <<InitSelected(rdInitValue)>>
  /\ rdValues = <<>>
  /\ rdCur = 1
  /\ rdSeen = 1
  /\ rdMounted = FALSE
  /\ rdRenders = 0
  /\ rdTrace = <<>>

\* setRadioData({...obj}): a new top-level object with obj's selectedValue
\* and the shared values array becomes the state.
RdSetCopy(objs, k) == Append(objs, objs[k])

\* Every useRadioBind step leaves the other hooks alone.
RdFrame ==
  hook = "useRadioBind" /\ UNCHANGED <<hook, cbVars, lvVars, mdVars, trVars, ctVars, ptVars>>

RdLog(e) == IF Len(rdTrace) < 2 THEN Append(rdTrace, e) ELSE <<rdTrace[2], e>>

\* The mount effect: it closes over the first render's radioData (object 1).
RdMountEffect ==
  /\ RdFrame
  /\ ~rdMounted
  /\ rdValues' = PopulateRadio(rdValues, rdDefs, rdObjs[1])
  /\ rdObjs' = RdSetCopy(rdObjs, 1)
  /\ rdCur' = Len(rdObjs')
  /\ rdMounted' = TRUE
  /\ UNCHANGED <<rdDefs, rdInitValue, rdSeen, rdRenders, rdTrace>>

\* A host re-render: the hook body sees the object React holds as state.
RdRender ==
  /\ RdFrame
  /\ rdMounted
  /\ rdRenders < MaxRenders
  /\ rdRenders' = rdRenders + 1
  /\ rdSeen' = rdCur
  /\ rdValues' = IF RadioEffectOnRerender
                 THEN PopulateRadio(rdValues, rdDefs, rdObjs[rdCur])
                 ELSE rdValues
  /\ UNCHANGED <<rdDefs, rdInitValue, rdObjs, rdCur, rdMounted, rdTrace>>

\* setSelectedValue(val) as returned by the latest render.
RdSetSelectedValue(val) ==
  /\ RdFrame
  /\ rdMounted
  /\ Len(rdObjs) <= MaxSets
  /\ rdValues' = RecomputeChecked(rdValues, val)
  /\ rdObjs' = RdSetCopy([rdObjs EXCEPT ![rdSeen] = val], rdSeen)
  /\ rdCur' = Len(rdObjs')
  /\ rdTrace' = RdLog([op |-> "select", val |-> val])
  /\ UNCHANGED <<rdDefs, rdInitValue, rdSeen, rdMounted, rdRenders>>

\* Option i's onChange: handleChange(item) of the mount effect, which closed
\* over object 1 and over the caller's definition item.
RdChange(i) ==
  /\ RdFrame
  /\ rdMounted
  /\ Len(rdObjs) <= MaxSets
  /\ rdValues' = RecomputeChecked(rdValues, rdDefs[i])
  /\ rdObjs' = RdSetCopy([rdObjs EXCEPT ![1] = rdDefs[i]], 1)
  /\ rdCur' = Len(rdObjs')
  /\ rdTrace' = RdLog([op |-> "change", val |-> rdDefs[i]])
  /\ UNCHANGED <<rdDefs, rdInitValue, rdSeen, rdMounted, rdRenders>>

RdNext ==
  \/ RdMountEffect
  \/ RdRender
  \/ \E v \in Vals : RdSetSelectedValue(v)
  \/ \E i \in 1..Len(rdDefs) : RdChange(i)

\* ------------------------------------- useTextValueBind / useSelectBind
\* useState(initialValue ? initialValue : '').
InitialState(initialValue) == IF Truthy(initialValue) THEN initialValue ELSE ""

\* reset: setValue(initialValue), the argument as the caller passed it.
ResetValue(initialValue) == initialValue

LvIdle ==
  /\ lvArg = Undefined
  /\ lvValue = Undefined
  /\ lvBuilt = Undefined
  /\ lvSets = 0
  /\ lvRenders = 0
  /\ lvTrace = <<>>

\* State after the first render.
LvInit ==
  /\ hook \in {"useTextValueBind", "useSelectBind"}
  /\ lvArg \in ({Undefined, ""} \cup Vals)
  /\ lvValue = InitialState(lvArg)
  /\ lvBuilt = lvValue
  /\ lvSets = 0
  /\ lvRenders = 0
  /\ lvTrace = <<>>

LvFrame ==
  /\ hook \in {"useTextValueBind", "useSelectBind"}
  /\ UNCHANGED <<hook, cbVars, rdVars, mdVars, trVars, ctVars, ptVars>>

LvLog(e) == IF Len(lvTrace) < 2 THEN Append(lvTrace, e) ELSE <<lvTrace[2], e>>

\* A host re-render with the same argument: useState keeps the value.
LvRender ==
  /\ LvFrame
  /\ lvRenders < MaxRenders
  /\ lvRenders' = lvRenders + 1
  /\ UNCHANGED <<lvArg, lvValue, lvBuilt, lvSets, lvTrace>>

\* attr.onChange(e): setValue(e.target.value).
LvOnChange(v) ==
  /\ LvFrame
  /\ lvSets < MaxSets
  /\ lvValue' = v
  /\ lvSets' = lvSets + 1
  /\ lvTrace' = LvLog([op |-> "onChange", val |-> v])
  /\ UNCHANGED <<lvArg, lvBuilt, lvRenders>>

\* event.setValue(x): the state setter itself.
LvSetValue(x) ==
  /\ LvFrame
  /\ lvSets < MaxSets
  /\ lvValue' = x
  /\ lvSets' = lvSets + 1
  /\ lvTrace' = LvLog([op |-> "setValue", val |-> x])
  /\ UNCHANGED <<lvArg, lvBuilt, lvRenders>>

\* event.reset().
LvReset ==
  /\ LvFrame
  /\ lvSets < MaxSets
  /\ lvValue' = ResetValue(lvArg)
  /\ lvSets' = lvSets + 1
  /\ lvTrace' = LvLog([op |-> "reset", val |-> lvArg])
  /\ UNCHANGED <<lvArg, lvBuilt, lvRenders>>

LvNext ==
  \/ LvRender
  \/ \E v \in Vals \cup {""} : LvOnChange(v)
  \/ \E x \in Vals \cup {""} : LvSetValue(x)
  \/ LvReset

\* --------------------------------------------------------- ModalConfirm
\* Identities a callbackFunc prop can have from one render to the next.
CallbackIds == {"f", "g"}
\* What the host may pass as callbackFunc: a function, or nothing.
CallbackProps == CallbackIds \cup {Undefined}
\* The result argument of a callbackFunc call: btnClick(true), btnClick(false),
\* or none at all from the effect cleanup.
NoResult == "none"

\* removeLayer(index) of the store: index-addressed removal from layerList.
RemoveLayer(layers, index) ==
  IF index \in 0..(Len(layers) - 1)
  THEN [k \in 1..(Len(layers) - 1) |-> IF k <= index THEN layers[k] ELSE layers[k + 1]]
  ELSE layers

\* The effect's dependency list [isNotClosed, callbackFunc]: isNotClosed is
\* true in every render body, so the effect re-runs iff callbackFunc differs
\* from the previous render's.
DepsChanged(prevCb, cb) == prevCb # cb

\* Calling callbackFunc: an undefined one throws a TypeError.
Callable(cb) == cb # Undefined

\* The effect cleanup of render r, run at `site`: if (isNotClosed) callbackFunc().
CleanupCalls(r, site) ==
  IF mdFlags[r] /\ Callable(mdCbs[r])
  THEN <<[cb |-> mdCbs[r], result |-> NoResult, at |-> site,
          flag |-> mdFlags[r], layers |-> mdLayers]>>
  ELSE <<>>

CleanupErrors(r) ==
  IF mdFlags[r] /\ ~Callable(mdCbs[r]) THEN <<"cleanup">> ELSE <<>>

MdIdle ==
  /\ mdLayerIndex = 0
  /\ mdLayers = <<>>
  /\ mdCbs = <<>>
  /\ mdFlags = <<>>
  /\ mdEffect = 0
  /\ mdMounted = FALSE
  /\ mdCalls = <<>>
  /\ mdClicks = <<>>
  /\ mdErrors = <<>>

\* State after the first render and its effect: the dialog is layer
\* layerIndex of a stack of one or two layers.
MdInit ==
  /\ hook = "ModalConfirm"
  /\ mdLayers \in {<<"dialog">>, <<"page", "dialog">>, <<"dialog", "toast">>}
  /\ mdLayerIndex = IndexOf(mdLayers, "dialog")
  /\ mdCbs \in {<<c>> : c \in CallbackProps}
  /\ mdFlags = <<TRUE>>
  /\ mdEffect = 1
  /\ mdMounted = TRUE
  /\ mdCalls = <<>>
  /\ mdClicks = <<>>
  /\ mdErrors = <<>>

MdFrame ==
  hook = "ModalConfirm" /\ UNCHANGED <<hook, cbVars, rdVars, lvVars, trVars, ctVars, ptVars>>

\* A host re-render with callbackFunc cb: a fresh isNotClosed = true; when the
\* dependencies changed, the registered cleanup runs and the effect is
\* registered again for this render.
MdRender(cb) ==
  /\ MdFrame
  /\ mdMounted
  /\ Len(mdFlags) <= MaxRenders
  /\ mdCbs' = Append(mdCbs, cb)
  /\ mdFlags' = Append(mdFlags, TRUE)
  /\ IF DepsChanged(mdCbs[Len(mdCbs)], cb)
     THEN /\ mdCalls' = mdCalls \o CleanupCalls(mdEffect, "rerender")
          /\ mdErrors' = mdErrors \o CleanupErrors(mdEffect)
          /\ mdEffect' = Len(mdFlags) + 1
     ELSE UNCHANGED <<mdCalls, mdErrors, mdEffect>>
  /\ UNCHANGED <<mdLayerIndex, mdLayers, mdMounted, mdClicks>>

\* A click on a button of the latest render: btnClick(result) clears the
\* flag, removes the layer, then calls callbackFunc(result).
MdClick(result) ==
  /\ MdFrame
  /\ mdMounted
  /\ Len(mdCalls) < MaxSets
  /\ Len(mdClicks) < MaxClicks
  /\ LET r == Len(mdFlags)
     IN  /\ mdFlags' = [mdFlags EXCEPT ![r] = FALSE]
         /\ mdLayers' = RemoveLayer(mdLayers, mdLayerIndex)
         /\ mdClicks' = Append(mdClicks, [result |-> result, before |-> mdLayers,
                                          after |-> mdLayers'])
         /\ IF Callable(mdCbs[r])
            THEN /\ mdCalls' = Append(mdCalls,
                       [cb |-> mdCbs[r], result |-> result, at |-> "click",
                        flag |-> mdFlags'[r], layers |-> mdLayers'])
                 /\ UNCHANGED mdErrors
            ELSE /\ mdErrors' = Append(mdErrors, "click")
                 /\ UNCHANGED mdCalls
  /\ UNCHANGED <<mdLayerIndex, mdCbs, mdEffect, mdMounted>>

\* The host unmounts the dialog: the registered cleanup runs.
MdUnmount ==
  /\ MdFrame
  /\ mdMounted
  /\ mdMounted' = FALSE
  /\ mdCalls' = mdCalls \o CleanupCalls(mdEffect, "unmount")
  /\ mdErrors' = mdErrors \o CleanupErrors(mdEffect)
  /\ UNCHANGED <<mdLayerIndex, mdLayers, mdCbs, mdFlags, mdEffect, mdClicks>>

MdNext ==
  \/ \E cb \in CallbackProps : MdRender(cb)
  \/ \E result \in {"true", "false"} : MdClick(result)
  \/ MdUnmount

\* ------------------------------------ useTextStateBind / useTextContextBind
\* Property names of the modelled trees: a root has x (a scalar) and o (a
\* nested object, or absent); a nested object has y.  An absent property
\* reads as Undefined.
Fields == {"x", "o", "y"}
EmptyObj == [f \in Fields |-> Undefined]

\* A property that holds an object holds a reference to it.
RefNames == <<"#1", "#2", "#3", "#4", "#5", "#6", "#7", "#8", "#9", "#10",
              "#11", "#12", "#13", "#14", "#15", "#16">>
IsRef(v) == v \in Range(RefNames)
Deref(v) == CHOOSE i \in 1..Len(RefNames) : RefNames[i] = v

\* getNestedValue(root, path): walks the segments; undefined as soon as an
\* intermediate segment is missing or not an object.
RECURSIVE getNestedValue(_, _, _)
getNestedValue(heap, id, path) ==
  LET v == heap[id][Head(path)]
  IN  IF Len(path) = 1 THEN v
      ELSE IF IsRef(v) THEN getNestedValue(heap, Deref(v), Tail(path))
      ELSE Undefined

\* setNestedValue(root, path, value): walks all segments but the last,
\* creating an empty object at a missing intermediate segment, and assigns
\* value at the last segment.  The result is the heap after the mutation.
RECURSIVE setNestedValue(_, _, _, _)
setNestedValue(heap, id, path, value) ==
  LET v == heap[id][Head(path)]
  IN  IF Len(path) = 1 THEN [heap EXCEPT ![id][Head(path)] = value]
      ELSE IF IsRef(v) THEN setNestedValue(heap, Deref(v), Tail(path), value)
      ELSE IF v = Undefined
      THEN LET n == Len(heap) + 1
               h == Append([heap EXCEPT ![id][Head(path)] = RefNames[n]], EmptyObj)
           IN  setNestedValue(h, n, Tail(path), value)
      ELSE heap

\* Faulty variant of ShallowCopy: a new object that carries none of the
\* root's properties.
ShallowCopyEmpty(heap, id) == Append(heap, EmptyObj)

\* { ...state }: a new top-level object with the same property values.
ShallowCopy(heap, id) == Append(heap, heap[id])

\* const initialValue = getNestedValue(state, field), in the hook body.
InitialValue(heap, root, field) == getNestedValue(heap, root, field)

TrHooks == {"useTextStateBind", "useTextContextBind"}

\* The host binds two fields of the same root: the binding under study and
\* a second one, on the other field.
Bindings == {"own", "sib"}
SiblingField(field) == IF field = <<"x">> THEN <<"o", "y">> ELSE <<"x">>
BindingField(b, field) == IF b = "own" THEN field ELSE SiblingField(field)

TrIdle ==
  /\ trField = <<>>
  /\ trHeap = <<>>
  /\ trCur = 0
  /\ trSeen = 0
  /\ trInitial = Undefined
  /\ trBuilt = Undefined
  /\ trSets = 0
  /\ trRenders = 0
  /\ trTrace = <<>>
  /\ trOld = 0
  /\ trLast = [b \in Bindings |-> Undefined]
  /\ trMounted = FALSE

\* The host's tree when the hook is first called.
InitialHeaps ==
  {<<[EmptyObj EXCEPT !["x"] = x]>> : x \in {Undefined, "a"}} \cup
  {<<[EmptyObj EXCEPT !["x"] = x, !["o"] = RefNames[2]],
     [EmptyObj EXCEPT !["y"] = y]>> : x \in {Undefined, "a"}, y \in {Undefined, "b"}}

\* State after the first render.
TrInit ==
  /\ hook \in TrHooks
  /\ trField \in {<<"x">>, <<"o", "y">>}
  /\ trHeap \in InitialHeaps
  /\ trCur = 1
  /\ trSeen = 1
  /\ trInitial = InitialValue(trHeap, 1, trField)
  /\ trBuilt = getNestedValue(trHeap, 1, trField)
  /\ trSets = 0
  /\ trRenders = 0
  /\ trTrace = <<>>
  /\ trOld = 0
  /\ trLast = [b \in Bindings |->
                 getNestedValue(trHeap, 1, BindingField(b, trField))]
  /\ trMounted = TRUE

TrFrame ==
  hook \in TrHooks /\ UNCHANGED <<hook, cbVars, rdVars, lvVars, mdVars, ctVars, ptVars>>

TrLog(e) == IF Len(trTrace) < 2 THEN Append(trTrace, e) ELSE <<trTrace[2], e>>

\* A host re-render: the hook is called with the root the host now holds and
\* computes initialValue again.
TrRender ==
  /\ TrFrame
  /\ trMounted
  /\ trSeen # trCur \/ trRenders < MaxRenders
  /\ trRenders' = IF trSeen # trCur THEN trRenders ELSE trRenders + 1
  /\ trSeen' = trCur
  /\ trInitial' = InitialValue(trHeap, trCur, trField)
  /\ UNCHANGED <<trField, trHeap, trCur, trBuilt, trSets, trTrace, trOld, trLast,
                 trMounted>>

\* The body shared by onChange, reset and setValue, run by binding b's
\* handler that closed over `root`:
\* setNestedValue(state, field, value); setState({ ...state }).
TrWriteVia(op, b, root, value) ==
  /\ trSets < MaxWrites
  /\ trHeap' = ShallowCopy(setNestedValue(trHeap, root, BindingField(b, trField), value),
                           root)
  /\ trCur' = Len(trHeap')
  /\ trSets' = trSets + 1
  /\ trLast' = [trLast EXCEPT ![b] = value]
  /\ trTrace' = TrLog([op |-> op, val |-> value, fresh |-> (root = trCur),
                       binding |-> b, root |-> root, made |-> Len(trHeap),
                       sets |-> trSets, mounted |-> trMounted])
  /\ UNCHANGED <<trField, trSeen, trInitial, trBuilt, trRenders, trOld, trMounted>>

\* The same body in a handler of the latest render of the binding under study.
TrWrite(op, value) == TrWriteVia(op, "own", trSeen, value)

\* attr.onChange(e) with e.target.value = v.
TrOnChange(v) ==
  /\ TrFrame
  /\ TrWrite("onChange", v)

\* event.setValue(val).
TrSetValue(val) ==
  /\ TrFrame
  /\ TrWrite("setValue", val)

\* event.reset(): writes the latest render's initialValue.
TrReset ==
  /\ TrFrame
  /\ TrWrite("reset", trInitial)

\* setValue(val) of the second binding, latest render.
TrSiblingSetValue(val) ==
  /\ TrFrame
  /\ TrWriteVia("setValue", "sib", trSeen, val)

\* The host keeps the handlers of the render it has now (in a timer, a ref,
\* a memoised callback).
TrKeepHandlers ==
  /\ TrFrame
  /\ trMounted
  /\ trOld # trSeen
  /\ trOld' = trSeen
  /\ UNCHANGED <<trField, trHeap, trCur, trSeen, trInitial, trBuilt, trSets,
                 trRenders, trTrace, trLast, trMounted>>

\* setValue(val) of binding b through a kept handler: it still refers to
\* the state object of its own render.
TrStaleSetValue(b, val) ==
  /\ TrFrame
  /\ trOld \notin {0, trSeen}
  /\ TrWriteVia("setValue", b, trOld, val)

\* The host unmounts the control; nothing in the hooks reacts to it.
TrUnmount ==
  /\ TrFrame
  /\ trMounted
  /\ trMounted' = FALSE
  /\ UNCHANGED <<trField, trHeap, trCur, trSeen, trInitial, trBuilt, trSets,
                 trRenders, trTrace, trOld, trLast>>

TrNext ==
  \/ TrRender
  \/ \E v \in Vals \cup {""} : TrOnChange(v)
  \/ \E val \in Vals \cup {""} : TrSetValue(val)
  \/ TrReset

\* ---------------------------------------------------------------------------
\* Parameter validation at the top of useTextStateBind, useTextContextBind,
\* useRadioBind and useCheckboxBind
\* ---------------------------------------------------------------------------

ValidatingHooks ==
  {"useTextStateBind", "useTextContextBind", "useRadioBind", "useCheckboxBind"}
GroupHooks == {"useRadioBind", "useCheckboxBind"}

NoArgs ==
  [field |-> Undefined, state |-> Undefined, setState |-> Undefined,
   context |-> Undefined, initData |-> Undefined, values |-> Undefined]

\* What a caller may pass for each parameter; values is initData.values and
\* exists only on an initData object.
FieldArgs == {Undefined, Null, "", "x", "o.y"}
StateArgs == {Undefined, Null, "object"}
SetterArgs == {Undefined, Null, "function"}
ContextArgs == {Undefined, Null, "pair"}
InitDataArgs == {Undefined, Null, "object"}
ValuesArgs == {Undefined, Null, "array"}

ArgsOf(h) ==
  CASE h = "useTextStateBind" ->
         {[NoArgs EXCEPT !.field = f, !.state = st, !.setState = fn] :
            f \in FieldArgs, st \in StateArgs, fn \in SetterArgs}
    [] h = "useTextContextBind" ->
         {[NoArgs EXCEPT !.context = c, !.field = f] :
            c \in ContextArgs, f \in FieldArgs}
    [] OTHER ->
         {[NoArgs EXCEPT !.initData = d] : d \in {Undefined, Null}} \cup
         {[NoArgs EXCEPT !.initData = "object", !.values = v] : v \in ValuesArgs}

\* Faulty variant of Rejects: useTextStateBind forgets to test setState.
RejectsNoSetter(h, a) ==
  CASE h = "useTextStateBind" -> ~Truthy(a.field) \/ ~Truthy(a.state)
    [] h = "useTextContextBind" -> ~Truthy(a.context) \/ ~Truthy(a.field)
    [] OTHER -> ~Truthy(a.initData) \/ ~Truthy(a.values)

\* The first statement of each hook: the condition under which it throws.
Rejects(h, a) ==
  CASE h = "useTextStateBind" ->
         ~Truthy(a.field) \/ ~Truthy(a.state) \/ ~Truthy(a.setState)
    [] h = "useTextContextBind" -> ~Truthy(a.context) \/ ~Truthy(a.field)
    [] OTHER -> ~Truthy(a.initData) \/ ~Truthy(a.values)

\* What the rest of the hook body does once validation has passed: the group
\* hooks create one useState cell; the tree hooks read the bound field for
\* initialValue and again for attr.value.
CellsCreated(h) == IF h \in GroupHooks THEN 1 ELSE 0
ReadsMade(h) == IF h \in GroupHooks THEN 0 ELSE 2

CtIdle ==
  /\ ctArgs = NoArgs
  /\ ctPc = "idle"
  /\ ctCells = 0
  /\ ctReads = 0
  /\ ctHandlers = FALSE

\* The hook is about to be called with some arguments.
CtInit ==
  /\ hook \in ValidatingHooks
  /\ ctArgs \in ArgsOf(hook)
  /\ ctPc = "call"
  /\ ctCells = 0
  /\ ctReads = 0
  /\ ctHandlers = FALSE

CtFrame ==
  /\ hook \in ValidatingHooks
  /\ ctPc = "call"
  /\ UNCHANGED <<hook, cbVars, rdVars, lvVars, mdVars, trVars, ptVars>>

\* The validation fails: throw new Error('Required ... params.').
CtThrow ==
  /\ CtFrame
  /\ Rejects(hook, ctArgs)
  /\ ctPc' = "threw"
  /\ UNCHANGED <<ctArgs, ctCells, ctReads, ctHandlers>>

\* The validation passes: the body runs to its return statement.
CtReturn ==
  /\ CtFrame
  /\ ~Rejects(hook, ctArgs)
  /\ ctPc' = "returned"
  /\ ctCells' = CellsCreated(hook)
  /\ ctReads' = ReadsMade(hook)
  /\ ctHandlers' = TRUE
  /\ UNCHANGED ctArgs

CtNext ==
  \/ CtThrow
  \/ CtReturn

\* ---------------------------------------------------------------------------
\* getNestedValue / setNestedValue as the tree hooks call them
\* ---------------------------------------------------------------------------

Paths == {<<"x">>, <<"o", "y">>, <<"o", "o", "y">>}

\* Roots: empty, with scalars, with nested objects, and with a scalar where
\* a path expects an object.
PathRoots ==
  { <<EmptyObj>>,
    <<[EmptyObj EXCEPT !["x"] = "a"]>>,
    <<[EmptyObj EXCEPT !["o"] = "a"]>>,
    <<[EmptyObj EXCEPT !["o"] = RefNames[2]], EmptyObj>>,
    <<[EmptyObj EXCEPT !["o"] = RefNames[2]], [EmptyObj EXCEPT !["y"] = "b"]>>,
    <<[EmptyObj EXCEPT !["o"] = RefNames[2]], [EmptyObj EXCEPT !["o"] = "a"]>>,
    <<[EmptyObj EXCEPT !["o"] = RefNames[2]],
      [EmptyObj EXCEPT !["o"] = RefNames[3]],
      [EmptyObj EXCEPT !["y"] = "b"]>> }

\* Faulty variant of WriteField: the write goes to a copy of the root.
WriteFieldOnCopy(heap, root, path, value) ==
  setNestedValue(ShallowCopy(heap, root), Len(heap) + 1, path, value)

\* setNestedValue(state, field, val) as called by the handlers.
WriteField(heap, root, path, value) == setNestedValue(heap, root, path, value)

\* value: getNestedValue(state, field) as read for attr.value.
ReadField(heap, root, path) == getNestedValue(heap, root, path)

PtIdle ==
  /\ ptRoot = <<>>
  /\ ptHeap = <<>>
  /\ ptPath = <<>>
  /\ ptPc = "idle"
  /\ ptValue = Undefined
  /\ ptRead = Undefined

PtInit ==
  /\ hook = "ObjectUtils"
  /\ ptRoot \in PathRoots
  /\ ptHeap = ptRoot
  /\ ptPath \in Paths
  /\ ptPc = "start"
  /\ ptValue = Undefined
  /\ ptRead = Undefined

PtFrame ==
  /\ hook = "ObjectUtils"
  /\ UNCHANGED <<hook, cbVars, rdVars, lvVars, mdVars, trVars, ctVars>>

\* The write of a handler.
PtSet(value) ==
  /\ PtFrame
  /\ ptPc = "start"
  /\ ptHeap' = WriteField(ptHeap, 1, ptPath, value)
  /\ ptValue' = value
  /\ ptPc' = "written"
  /\ UNCHANGED <<ptRoot, ptPath, ptRead>>

\* The read of the next render.
PtGet ==
  /\ PtFrame
  /\ ptPc = "written"
  /\ ptRead' = ReadField(ptHeap, 1, ptPath)
  /\ ptPc' = "read"
  /\ UNCHANGED <<ptRoot, ptHeap, ptPath, ptValue>>

PtNext ==
  \/ \E value \in Vals \cup {""} : PtSet(value)
  \/ PtGet


InitCheckbox == CbInit /\ RdIdle /\ LvIdle /\ MdIdle /\ TrIdle /\ CtIdle /\ PtIdle
SpecCheckbox == InitCheckbox /\ [][CbNext]_vars

InitRadio == RdInit /\ CbIdle /\ LvIdle /\ MdIdle /\ TrIdle /\ CtIdle /\ PtIdle
SpecRadio == InitRadio /\ [][RdNext]_vars

\* Both option-group hooks: a run is about one of them.
InitGroups == InitCheckbox \/ InitRadio
NextGroups == CbNext \/ RdNext
SpecGroups == InitGroups /\ [][NextGroups]_vars

InitLocal == LvInit /\ CbIdle /\ RdIdle /\ MdIdle /\ TrIdle /\ CtIdle /\ PtIdle
SpecLocal == InitLocal /\ [][LvNext]_vars

InitModal == MdInit /\ CbIdle /\ RdIdle /\ LvIdle /\ TrIdle /\ CtIdle /\ PtIdle
SpecModal == InitModal /\ [][MdNext]_vars

InitTree == TrInit /\ CbIdle /\ RdIdle /\ LvIdle /\ MdIdle /\ CtIdle /\ PtIdle
SpecTree == InitTree /\ [][TrNext]_vars

\* A host that binds two fields of one context, may keep handlers across
\* renders, and may unmount.
TrSharedNext ==
  \/ TrNext
  \/ \E val \in Vals : TrSiblingSetValue(val)
  \/ TrKeepHandlers
  \/ \E b \in Bindings, val \in Vals : TrStaleSetValue(b, val)
  \/ TrUnmount
InitShared == InitTree /\ hook = "useTextContextBind"
SpecShared == InitShared /\ [][TrSharedNext]_vars

InitConstruct ==
  CtInit /\ CbIdle /\ RdIdle /\ LvIdle /\ MdIdle /\ TrIdle /\ PtIdle
SpecConstruct == InitConstruct /\ [][CtNext]_vars

InitPath == PtInit /\ CbIdle /\ RdIdle /\ LvIdle /\ MdIdle /\ TrIdle /\ CtIdle
SpecPath == InitPath /\ [][PtNext]_vars

\* ------------------------------------------------------------ properties
OptionValues(values) == [i \in 1..Len(values) |-> values[i].value]
Distinct(s) == \A i, j \in 1..Len(s) : i # j => s[i] # s[j]
CheckedOptions(values) == {i \in 1..Len(values) : values[i].checked}

\* C1: after mount, every checkbox option's checked flag equals membership
\* of its value in the current checkedList.
C1_CheckedIsMembership ==
  (hook = "useCheckboxBind" /\ cbMounted) =>
    \A i \in 1..Len(cbValues) :
      cbValues[i].checked <=> (cbValues[i].value \in Range(cbList))

\* C2: a reset() exposed by the latest render leaves the bound field of the
\* host's root equal to the value it held when the binding was first
\* constructed.
C2_ResetRestoresFirstValue ==
  (/\ hook \in TrHooks
   /\ Len(trTrace) > 0
   /\ trTrace[Len(trTrace)].op = "reset"
   /\ trTrace[Len(trTrace)].fresh) =>
    getNestedValue(trHeap, trCur, trField) = trBuilt

\* C3: once the dialog is unmounted, callbackFunc has been invoked exactly
\* once in total.
C3_CallbackExactlyOnce ==
  (hook = "ModalConfirm" /\ ~mdMounted /\ Undefined \notin Range(mdCbs)) =>
    Len(mdCalls) = 1

\* C4: setValue(x) followed by reset() leaves attr.value equal to the value
\* it had immediately after construction, whatever initialValue was.
C4_ResetRestoresBuilt ==
  (/\ hook \in {"useTextValueBind", "useSelectBind"}
   /\ Len(lvTrace) = 2
   /\ lvTrace[1].op = "setValue" /\ lvTrace[2].op = "reset") =>
    lvValue = lvBuilt

\* C5: in the snapshot React holds, every radio option is checked exactly
\* when its value equals that snapshot's selectedValue.
C5_CheckedIsSelected ==
  hook = "useRadioBind" =>
    \A i \in 1..Len(rdValues) :
      rdValues[i].checked <=> (rdValues[i].value = rdObjs[rdCur])

C5_Witness ==
  /\ hook = "useRadioBind"
  /\ Len(rdTrace) = 2
  /\ rdTrace[1].op = "select" /\ rdTrace[2].op = "change"
  /\ rdTrace[1].val # rdTrace[2].val
  /\ Len(rdValues) = 2
  /\ rdValues[1].checked # rdValues[2].checked

\* C6 as stated: exactly one radio option is checked, or none when the
\* selected value matches no option, and the checked one carries the
\* selected value.
C6_ExactlyOneChecked ==
  (hook = "useRadioBind" /\ rdMounted) =>
    LET sel == rdObjs[rdCur]
        C == CheckedOptions(rdValues)
    IN  /\ Cardinality(C) = IF sel \in Range(OptionValues(rdValues)) THEN 1 ELSE 0
        /\ \A i \in C : rdValues[i].value = sel

\* C6 amended: when the caller's option values are pairwise distinct, exactly
\* one radio option is checked, or none when the selected value matches no
\* option, and the checked one carries the selected value.
C6_ExactlyOneCheckedIfDistinct ==
  (hook = "useRadioBind" /\ rdMounted /\ Distinct(rdDefs)) =>
    LET sel == rdObjs[rdCur]
        C == CheckedOptions(rdValues)
    IN  /\ Cardinality(C) = IF sel \in Range(OptionValues(rdValues)) THEN 1 ELSE 0
        /\ \A i \in C : rdValues[i].value = sel

C6_Witness ==
  /\ hook = "useRadioBind"
  /\ Distinct(rdDefs) /\ Len(rdDefs) = 2
  /\ Len(rdTrace) = 2
  /\ rdTrace[1].val # rdTrace[2].val
  /\ Cardinality(CheckedOptions(rdValues)) = 1

\* C7: checkedList never contains a value more than once.
C7_NoDuplicates ==
  hook = "useCheckboxBind" => Distinct(cbList)

\* C8: toggling the same checkbox option twice in succession restores the
\* members of the selected set and every option's checked flag.
C8_ToggleTwiceRestores ==
  (/\ hook = "useCheckboxBind"
   /\ Len(cbTrace) = 2
   /\ cbTrace[1].op = "toggle" /\ cbTrace[2].op = "toggle"
   /\ cbTrace[1].idx = cbTrace[2].idx) =>
    /\ Range(cbList) = Range(cbTrace[1].list)
    /\ Flags(cbValues) = cbTrace[1].flags

\* C9: checkAll(true) checks every option and makes checkedList the option
\* values in option order; checkAll(false) unchecks every option and empties
\* checkedList; either call makes exactly one setCheckboxData call.
C9_CheckAllResult ==
  (/\ hook = "useCheckboxBind"
   /\ Len(cbTrace) > 0
   /\ cbTrace[Len(cbTrace)].op = "checkAll") =>
    LET e == cbTrace[Len(cbTrace)]
    IN  /\ \A i \in 1..Len(cbValues) : cbValues[i].checked = e.flag
        /\ cbList = IF e.flag THEN OptionValues(e.values) ELSE <<>>
        /\ OptionValues(cbValues) = OptionValues(e.values)
        /\ cbSets = e.sets + 1

C9_Witness ==
  /\ hook = "useCheckboxBind"
  /\ Len(cbTrace) = 2
  /\ cbTrace[1].op = "checkAll" /\ cbTrace[1].flag
  /\ Len(cbTrace[1].values) = 2
  /\ cbTrace[1].flags[1] # cbTrace[1].flags[2]
  /\ cbTrace[2].op = "checkAll" /\ ~cbTrace[2].flag
  /\ Len(cbTrace[2].list) = 2
  /\ cbList = <<>>

\* C10: the option list of either group hook is empty until the mount
\* effect and from then on carries the caller's option values, in the
\* caller's order, whatever re-renders and operations follow.
C10_OptionListFixed ==
  /\ hook = "useCheckboxBind" =>
       OptionValues(cbValues) = IF cbMounted THEN cbDefs ELSE <<>>
  /\ hook = "useRadioBind" =>
       OptionValues(rdValues) = IF rdMounted THEN rdDefs ELSE <<>>

C10_Witness ==
  /\ hook = "useCheckboxBind"
  /\ cbRenders = MaxRenders
  /\ Len(cbTrace) = 2
  /\ cbTrace[1].op = "toggle" /\ cbTrace[2].op = "checkAll"
  /\ OptionValues(cbValues) = <<"b", "a">>


Count(s, v) == Cardinality({i \in 1..Len(s) : s[i] = v})

C15_ConstructionFailsFast ==
  hook = "ModalConfirm" => (Undefined \notin Range(mdCbs) /\ mdErrors = <<>>)

\* C18: callbackFunc is called without a result only by the unmount, never
\* by a re-render, and every other call is made by a click that has already
\* cleared the flag.
C18_NoCallWhileOpen ==
  hook = "ModalConfirm" =>
    \A k \in 1..Len(mdCalls) :
      /\ mdCalls[k].result = NoResult => mdCalls[k].at = "unmount"
      /\ mdCalls[k].at = "click" => ~mdCalls[k].flag

\* C19: the first click removes exactly the dialog's own layer and, with the
\* flag already cleared and the layer already gone, calls callbackFunc with
\* the button's result; a later click removes nothing.
C19_ClickClosesOnce ==
  hook = "ModalConfirm" =>
    \A k \in 1..Len(mdClicks) :
      LET c == mdClicks[k]
      IN  IF k = 1
          THEN /\ c.after = RemoveLayer(c.before, mdLayerIndex)
               /\ Len(c.after) = Len(c.before) - 1
               /\ \A j \in 1..Len(c.after) : c.after[j] # "dialog"
               /\ \A j \in 1..Len(mdCalls) :
                    mdCalls[j].at = "click" =>
                      /\ mdCalls[j].result \in {"true", "false"}
                      /\ ~mdCalls[j].flag
               /\ mdErrors = <<>> =>
                    \E j \in 1..Len(mdCalls) :
                      /\ mdCalls[j].at = "click"
                      /\ mdCalls[j].result = c.result
                      /\ mdCalls[j].layers = c.after
          ELSE c.after = c.before


\* C20: whatever toggles and checkAll calls one useCheckboxBind instance has
\* served, the caller's initCheckedList array still holds what the caller
\* passed, and a second instance built from the same initData still has the
\* selection it was built with.
C20_InstancesIsolated ==
  hook = "useCheckboxBind" =>
    /\ cbCaller.list = cbGiven
    /\ OtherCheckedList = cbGiven


Absent(x) == x \in {Undefined, Null}

\* The calls C14 is about: a required parameter is absent, or the field
\* name is empty.
ParamsMissing(h, a) ==
  CASE h = "useTextStateBind" ->
         Absent(a.state) \/ Absent(a.setState) \/ Absent(a.field) \/ a.field = ""
    [] h = "useTextContextBind" ->
         Absent(a.context) \/ Absent(a.field) \/ a.field = ""
    [] OTHER -> Absent(a.initData) \/ Absent(a.values)

\* C14: a call of useTextStateBind, useTextContextBind, useRadioBind or
\* useCheckboxBind with a required parameter missing ends by throwing, with
\* no state cell created, no backing data read and no handler returned.
C14_MissingParamsThrowFirst ==
  (/\ hook \in ValidatingHooks
   /\ ctPc \in {"threw", "returned"}
   /\ ParamsMissing(hook, ctArgs)) =>
    /\ ctPc = "threw"
    /\ ctCells = 0
    /\ ctReads = 0
    /\ ~ctHandlers

C14_Witness ==
  /\ hook = "useTextStateBind"
  /\ ctArgs.field = "o.y"
  /\ ctArgs.state = "object"
  /\ ctArgs.setState = Undefined
  /\ ctPc = "threw"

\* Every intermediate segment of path is missing or holds an object.
RECURSIVE Resolvable(_, _, _)
Resolvable(heap, id, path) ==
  LET v == heap[id][Head(path)]
  IN  \/ Len(path) = 1
      \/ v = Undefined
      \/ IsRef(v) /\ Resolvable(heap, Deref(v), Tail(path))

OtherBinding(b) == IF b = "own" THEN "sib" ELSE "own"

\* C12: after a write to one bound field, whichever handler issued it, the
\* root the host then holds has in the other bound field the value last
\* written to that field (its initial value when it was never written).
C12_SiblingKept ==
  (hook \in TrHooks /\ Len(trTrace) > 0) =>
    LET q == OtherBinding(trTrace[Len(trTrace)].binding)
    IN  getNestedValue(trHeap, trCur, BindingField(q, trField)) = trLast[q]

\* C13: after a write, the root its handler closed over holds the written
\* value in the bound field, and the replace function has been called once
\* more than before, with an object made by this write, other than that
\* root, that holds the written value too.
C13_MutateThenReplaceOnce ==
  (hook \in TrHooks /\ Len(trTrace) > 0) =>
    LET e == trTrace[Len(trTrace)]
        f == BindingField(e.binding, trField)
    IN  /\ getNestedValue(trHeap, e.root, f) = e.val
        /\ trSets = e.sets + 1
        /\ trCur # e.root
        /\ trCur > e.made
        /\ getNestedValue(trHeap, trCur, f) = e.val

C13_Witness ==
  /\ hook = "useTextContextBind"
  /\ trField = <<"o", "y">>
  /\ Len(trTrace) = 2
  /\ trTrace[1].op = "setValue"
  /\ trTrace[2].op = "onChange" /\ trTrace[2].val = "b" /\ ~trTrace[2].fresh
  /\ getNestedValue(trHeap, 1, trField) = "b"
  /\ trCur > 1

\* C17: no write is made once the host has unmounted the control.
C17_NoWriteAfterUnmount ==
  hook \in TrHooks => \A k \in 1..Len(trTrace) : trTrace[k].mounted

====
